---- MODULE Spec2Model ----
(***************************************************************************)
(* A model of lsmr_proc.py: a main process that spawns (cpu_count - 1)     *)
(* worker processes, each reached through its own duplex pipe, partitions  *)
(* data over all participants with _split, broadcasts and scatters data,   *)
(* runs a function named by a string in every participant, and gathers     *)
(* the participants' partial results.                                      *)
(*                                                                         *)
(* Python numbers workers 0..K-1; the model numbers them 1..K and keeps    *)
(* index 0 for the main process, so _process_data[0] is the main process's *)
(* dictionary and _process_data[p] is that of worker p (Python's p-1).     *)
(***************************************************************************)
EXTENDS Integers, Sequences, FiniteSets, TLC

\* ---------------------------------------------------------------- bounds
\* the machine has 1..MaxCpu cpus, so pools of 0..MaxCpu-1 workers
MaxCpu == 3
\* the caller makes at most MaxCalls calls after start_processes
MaxCalls == 3
\* lists given to define_list / split_list_and_send have length 0..MaxLen
MaxLen == 3
\* inputs of the partitioner checked on its own (SplitSpec)
MaxStart == 2
MaxLength == 10
MaxSplits == 4

\* ------------------------------------------------------- python helpers
Min(a, b) == IF a < b THEN a ELSE b

\* a dict is a function from its keys (strings) to values
EmptyDict == [k \in {} |-> 0]

\* d[k] = v
DictSet(d, k, v) == [x \in (DOMAIN d) \cup {k} |-> IF x = k THEN v ELSE d[x]]

\* for key in e: d[key] = e[key]
DictUpdate(d, e) ==
    [x \in (DOMAIN d) \cup (DOMAIN e) |-> IF x \in DOMAIN e THEN e[x] ELSE d[x]]

\* s[a:b] for 0 <= a, 0 <= b: python clamps the slice to the list
PySlice(s, a, b) ==
    LET hi == Min(b, Len(s))
    IN  IF a >= hi THEN << >> ELSE SubSeq(s, a + 1, hi)

\* s[a:]
PySliceFrom(s, a) == PySlice(s, a, Len(s))

\* v == s for a string s and any value v: a value that is not a string, such
\* as a list, equals no string
PyEq(v, s) == ToString(v) = ToString(s)

\* int(a / b) for b > 0: true division, then truncation toward zero
IntTrunc(a, b) == IF a >= 0 THEN a \div b ELSE -((-a) \div b)

\* ------------------------------------------------------------ _split
\* the breakpoints of the standard case: indices[i] (python index i-1)
SplitIndicesMut(start, length, num_splits) ==
    [i \in 1..num_splits |-> start + IntTrunc(length, num_splits) * (i - 1)]

SplitIndices(start, length, num_splits) ==
    [i \in 1..num_splits |-> start + IntTrunc(length * (i - 1), num_splits)]

\* (index, length) of the final pair of the standard case
SplitFinalPairMut(start, length, indices) ==
    << indices[Len(indices)], length - indices[Len(indices)] >>

SplitFinalPair(start, length, indices) ==
    << indices[Len(indices)], start + length - indices[Len(indices)] >>

SplitStandard(start, length, num_splits) ==
    LET indices == SplitIndices(start, length, num_splits)
    IN  [i \in 1..num_splits |->
            IF i < num_splits
            THEN << indices[i], indices[i + 1] - indices[i] >>
            ELSE SplitFinalPair(start, length, indices)]

\* the loop of the special case: i iterations done, "index" the running offset
RECURSIVE SplitSpecialMut(_, _, _, _, _)
SplitSpecialMut(start, length, num_splits, index, result) ==
    IF Len(result) = num_splits
    THEN result
    ELSE IF index < start + length
         THEN SplitSpecialMut(start, length, num_splits, index + 1,
                              Append(result, << index, 1 >>))
         ELSE SplitSpecialMut(start, length, num_splits, index + 1,
                              Append(result, << index, 0 >>))

RECURSIVE SplitSpecial(_, _, _, _, _)
SplitSpecial(start, length, num_splits, index, result) ==
    IF Len(result) = num_splits
    THEN result
    ELSE IF index < start + length
         THEN SplitSpecial(start, length, num_splits, index + 1,
                           Append(result, << index, 1 >>))
         ELSE SplitSpecial(start, length, num_splits, index,
                           Append(result, << index, 0 >>))

_split(start, length, num_splits) ==
    IF length >= num_splits
    THEN SplitStandard(start, length, num_splits)
    ELSE SplitSpecial(start, length, num_splits, start, << >>)

\* ------------------------------------------------------------- state
VARIABLES
    _cpu_count,     \* multiprocessing.cpu_count() of the machine
    parent_keeps_end, \* whether the main process still holds the worker's end of
                    \* each pipe (the Process object keeps its args) or has
                    \* closed it (the interpreter drops the args at start)
    _pipes,         \* per worker: [req: requests in flight, rep: replies in flight]
    _processes,     \* per worker: "listening", "stopped" (returned), "crashed" (raised)
    _process_data,  \* per participant 0..K: its own _process_data dictionary
    pc,             \* where the main process is: "unstarted", "idle", "send",
                    \* "recv", "join", "ended"
    i,              \* the loop index of the main process (workers 1..K)
    cur,            \* the call in progress, or the last call made
    prev,           \* the call made before cur
    argDict,        \* the dictionary object the caller passed to cur, as the call
                    \* left it (EmptyDict when cur takes no dictionary)
    var_list,       \* concat_var_into_list's accumulator
    var_array,      \* concat_var_into_numpy_array's accumulator
    result,         \* what the last call returned
    err,            \* what the last call raised ("none" when it has not raised)
    calls,          \* number of calls made
    sIn,            \* SplitSpec: the arguments of _split
    sOut            \* SplitSpec: the list _split returned

vars == << _cpu_count, parent_keeps_end, _pipes, _processes, _process_data, pc, i, cur, prev, argDict,
           var_list, var_array, result, err, calls, sIn, sOut >>

poolVars == << _cpu_count, parent_keeps_end, _pipes, _processes, _process_data, pc, i, cur, prev, argDict,
               var_list, var_array, result, err, calls >>

splitVars == << sIn, sOut >>

\* number of workers spawned so far
K == Len(_pipes)
Workers == 1..K

\* ------------------------------------------------- inputs of the caller
\* the parameters _create_data reads, as send_same_data's data_dict; the third
\* gives every participant the same "list_def" too
SameDataInputs ==
    { ("block_length" :> 1) @@ ("non_zeros_per_row" :> 2),
      ("block_length" :> 2) @@ ("non_zeros_per_row" :> 1),
      ("list_def" :> << 0, 1 >>) @@ ("block_length" :> 1)
        @@ ("non_zeros_per_row" :> 1) }

\* the list [1, 2, ..., n]
Iota(n) == [k \in 1..n |-> k]
DataLists == { Iota(n) : n \in 0..MaxLen }
ListNames == { "v" }
ConcatNames == { "v", "row" }
FunctionNames == { "_create_data", "doesNotExist" }
ArgDicts == { EmptyDict, ("op" :> "x"), ("op_name" :> "x") }

\* the names bound at module level, which is what globals() holds
Globals ==
    { "multiprocessing", "numpy", "_cpu_count", "_processes", "_pipes",
      "_process_data", "_message_loop", "start_processes", "end_processes",
      "send_same_data", "define_list", "split_list_and_send", "clear_all_data",
      "run_function", "concat_var_into_list", "concat_var_into_numpy_array",
      "_split", "_create_data" }

NoCall ==
    [op |-> "none", function_name |-> "", var_name |-> "", arg |-> EmptyDict,
     data_list |-> << >>, length |-> 0]

NoneArray == [isNone |-> TRUE, arr |-> << >>]

\* ---------------------------------------------------------- _create_data
\* col: a random integer of 0..block_length-1 per entry, offset by j * block_length
CreateDataCols(length, block_length, non_zeros_per_row) ==
    { [k \in 1..length |-> r[k] + ((k - 1) % non_zeros_per_row) * block_length] :
        r \in [1..length -> 0..(block_length - 1)] }

\* the outcomes of _create_data(request) on one participant's dictionary:
\* it raises KeyError when an input is missing, else it sets "row" and "col"
_create_data(data) ==
    IF ~({"list_def", "block_length", "non_zeros_per_row"} \subseteq DOMAIN data)
    THEN { [raised |-> "KeyError", data |-> data] }
    ELSE LET list_start == data["list_def"][1]
             num_rows == data["list_def"][2]
             block_length == data["block_length"]
             non_zeros_per_row == data["non_zeros_per_row"]
             length == num_rows * non_zeros_per_row
             row == [k \in 1..length |-> list_start + ((k - 1) \div non_zeros_per_row)]
         IN  { [raised |-> "none",
                data |-> DictSet(DictSet(data, "row", row), "col", col)] :
                 col \in CreateDataCols(length, block_length, non_zeros_per_row) }

\* globals()[name](request) on one participant's dictionary
Invoke(name, data) ==
    IF name = "_create_data"
    THEN _create_data(data)
    ELSE { [raised |-> "TypeError", data |-> data] }

\* ------------------------------------------------------- pipe helpers
\* pipe.send(request) on the pipe of worker p
PipeSendMut(p, request) ==
    [_pipes EXCEPT ![p].req = << request >> \o @]

PipeSend(p, request) ==
    [_pipes EXCEPT ![p].req = Append(@, request)]

\* ------------------------------------------------------------- Init
PoolInit ==
    /\ _cpu_count \in 1..MaxCpu
    /\ parent_keeps_end \in BOOLEAN
    /\ _pipes = << >>
    /\ _processes = << >>
    /\ _process_data = [p \in {0} |-> EmptyDict]
    /\ pc = "unstarted"
    /\ i = 0
    /\ cur = NoCall
    /\ prev = NoCall
    /\ argDict = EmptyDict
    /\ var_list = << >>
    /\ var_array = NoneArray
    /\ result = << >>
    /\ err = "none"
    /\ calls = 0

Init ==
    /\ PoolInit
    /\ sIn = [start |-> 0, length |-> 0, num_splits |-> 1, done |-> TRUE]
    /\ sOut = << >>

\* ------------------------------------------------------ start_processes
start_processes ==
    /\ pc = "unstarted"
    /\ _pipes' = [p \in 1..(_cpu_count - 1) |-> [req |-> << >>, rep |-> << >>]]
    /\ _processes' = [p \in 1..(_cpu_count - 1) |-> "listening"]
    /\ _process_data' = [p \in 0..(_cpu_count - 1) |->
                            IF p = 0 THEN _process_data[0] ELSE EmptyDict]
    /\ pc' = "idle"
    /\ UNCHANGED << _cpu_count, parent_keeps_end, i, cur, prev, argDict, var_list, var_array, result,
                    err, calls, splitVars >>

\* what every call does to the bookkeeping of the model when it is entered
Enter(call, dict, raised) ==
    /\ pc = "idle"
    /\ calls < MaxCalls
    /\ calls' = calls + 1
    /\ prev' = cur
    /\ cur' = call
    /\ argDict' = dict
    /\ err' = raised
    /\ result' = << >>
    /\ i' = 1
    /\ UNCHANGED << _cpu_count, parent_keeps_end, _processes, var_list, var_array, splitVars >>

\* the main process is in the sending loop of call "op", at worker i
Sending(op) == pc = "send" /\ cur.op = op /\ i \in Workers

\* the sending loop of call "op" is over
Sent(op) == pc = "send" /\ cur.op = op /\ i > K

\* the other end of the pipe of worker p is closed: p has raised and the main
\* process holds no copy of that end
PeerClosed(p) == _processes[p] = "crashed" /\ ~parent_keeps_end

\* one iteration of "for pipe in _pipes: pipe.send(request)"
SendStep(request) ==
    /\ ~PeerClosed(i)
    /\ _pipes' = PipeSend(i, request)
    /\ i' = i + 1
    /\ UNCHANGED << _cpu_count, parent_keeps_end, _processes, _process_data, pc, cur, prev, argDict,
                    var_list, var_array, result, err, calls, splitVars >>

\* the call returns normally
Return ==
    /\ pc' = "idle"
    /\ UNCHANGED << _cpu_count, parent_keeps_end, _pipes, _processes, i, cur, prev, argDict,
                    var_list, var_array, err, calls, splitVars >>

\* ------------------------------------------------------- send_same_data
send_same_data_call ==
    \E data_dict \in SameDataInputs :
        /\ Enter([NoCall EXCEPT !.op = "send_same_data", !.arg = data_dict],
                 DictSet(data_dict, "op", "set_data"), "none")
        /\ _process_data' = [_process_data EXCEPT ![0] = DictUpdate(@, data_dict)]
        /\ pc' = "send"
        /\ UNCHANGED _pipes

send_same_data_send ==
    /\ Sending("send_same_data")
    /\ SendStep(argDict)

send_same_data_return ==
    /\ Sent("send_same_data")
    /\ Return
    /\ UNCHANGED << _process_data, result >>

\* ---------------------------------------------------------- define_list
\* indices = _split(0, length, _cpu_count)
DefineListPlan(length) == _split(0, length, _cpu_count)

\* indices[i] for worker p (python's i = p - 1)
DefineListShareMut(length, p) == DefineListPlan(length)[p + 1]

DefineListShare(length, p) == DefineListPlan(length)[p]

define_list_call ==
    \E length \in 0..MaxLen :
        /\ Enter([NoCall EXCEPT !.op = "define_list", !.length = length], EmptyDict, "none")
        /\ pc' = "send"
        /\ UNCHANGED << _pipes, _process_data >>

define_list_send ==
    /\ Sending("define_list")
    /\ SendStep(("op" :> "set_data") @@ ("list_def" :> DefineListShare(cur.length, i)))

\* _process_data["list_def"] = indices[-1]
define_list_return ==
    /\ Sent("define_list")
    /\ LET indices == DefineListPlan(cur.length)
       IN  _process_data' = [_process_data EXCEPT
                                ![0] = DictSet(@, "list_def", indices[Len(indices)])]
    /\ Return
    /\ UNCHANGED result

\* -------------------------------------------------- split_list_and_send
\* indices_and_lengths = _split(0, len(data_list), _cpu_count)
SplitListPlan(data_list) == _split(0, Len(data_list), _cpu_count)

split_list_and_send_call ==
    \E data_list \in DataLists, var_name \in ListNames :
        /\ Enter([NoCall EXCEPT !.op = "split_list_and_send",
                                !.data_list = data_list, !.var_name = var_name],
                 EmptyDict, "none")
        /\ pc' = "send"
        /\ UNCHANGED << _pipes, _process_data >>

\* the iteration for a worker whose share has length > 0
split_list_and_send_send ==
    /\ Sending("split_list_and_send")
    /\ LET index == SplitListPlan(cur.data_list)[i][1]
           length == SplitListPlan(cur.data_list)[i][2]
       IN  /\ length > 0
           /\ SendStep(DictSet(("op" :> "set_data"), cur.var_name,
                               PySlice(cur.data_list, index, index + length)))

\* the iteration for a worker whose share is empty, without "if length > 0"
split_list_and_send_skipMut ==
    /\ Sending("split_list_and_send")
    /\ SplitListPlan(cur.data_list)[i][2] <= 0
    /\ SendStep(DictSet(("op" :> "set_data"), cur.var_name, << >>))

\* the iteration for a worker whose share is empty: nothing is sent
split_list_and_send_skip ==
    /\ Sending("split_list_and_send")
    /\ SplitListPlan(cur.data_list)[i][2] <= 0
    /\ i' = i + 1
    /\ UNCHANGED << _cpu_count, parent_keeps_end, _pipes, _processes, _process_data, pc, cur, prev,
                    argDict, var_list, var_array, result, err, calls, splitVars >>

\* _process_data[var_name] = data_list[index:], index that of the final pair
split_list_and_send_return ==
    /\ Sent("split_list_and_send")
    /\ LET plan == SplitListPlan(cur.data_list)
           index == plan[Len(plan)][1]
       IN  _process_data' = [_process_data EXCEPT
                                ![0] = DictSet(@, cur.var_name,
                                               PySliceFrom(cur.data_list, index))]
    /\ Return
    /\ UNCHANGED result

\* ------------------------------------------------------- clear_all_data
\* _process_data.clear()
DictClearMut(data) == data

DictClear(data) == EmptyDict

clear_all_data_call ==
    /\ Enter([NoCall EXCEPT !.op = "clear_all_data"], EmptyDict, "none")
    /\ pc' = "send"
    /\ UNCHANGED << _pipes, _process_data >>

clear_all_data_send ==
    /\ Sending("clear_all_data")
    /\ SendStep(("op" :> "clear_all_data"))

clear_all_data_return ==
    /\ Sent("clear_all_data")
    /\ _process_data' = [_process_data EXCEPT ![0] = DictClear(@)]
    /\ Return
    /\ UNCHANGED result

\* --------------------------------------------------------- run_function
\* ("op" in arg_dict) or ("op_name" in arg_dict)
ReservedKeysMut(arg_dict) == "op" \in DOMAIN arg_dict

ReservedKeys(arg_dict) == ("op" \in DOMAIN arg_dict) \/ ("op_name" \in DOMAIN arg_dict)

\* the guard raises: nothing has been written or sent
run_function_raise ==
    \E function_name \in FunctionNames, arg_dict \in ArgDicts :
        /\ ReservedKeys(arg_dict)
        /\ Enter([NoCall EXCEPT !.op = "run_function",
                                !.function_name = function_name, !.arg = arg_dict],
                 arg_dict, "Exception")
        /\ UNCHANGED << _pipes, _process_data, pc >>

\* arg_dict (None stands for a fresh empty dictionary) becomes the request
run_function_call ==
    \E function_name \in FunctionNames, arg_dict \in ArgDicts :
        /\ ~ReservedKeys(arg_dict)
        /\ Enter([NoCall EXCEPT !.op = "run_function",
                                !.function_name = function_name, !.arg = arg_dict],
                 DictSet(DictSet(arg_dict, "op", "run_function"),
                         "op_name", function_name), "none")
        /\ pc' = "send"
        /\ UNCHANGED << _pipes, _process_data >>

run_function_send ==
    /\ Sending("run_function")
    /\ SendStep(argDict)

\* globals()[function_name](arg_dict) placed inside the sending loop
run_function_localMut ==
    /\ pc = "send" /\ cur.op = "run_function"
    /\ cur.function_name \in Globals
    /\ \E out \in Invoke(cur.function_name, _process_data[0]) :
        /\ _process_data' = [_process_data EXCEPT ![0] = out.data]
        /\ err' = out.raised
    /\ pc' = "idle"
    /\ UNCHANGED << _cpu_count, parent_keeps_end, _pipes, _processes, i, cur, prev, argDict,
                    var_list, var_array, result, calls, splitVars >>

\* globals()[function_name](arg_dict) in the main process: the name is bound
run_function_local ==
    /\ Sent("run_function")
    /\ cur.function_name \in Globals
    /\ \E out \in Invoke(cur.function_name, _process_data[0]) :
        /\ _process_data' = [_process_data EXCEPT ![0] = out.data]
        /\ err' = out.raised
    /\ pc' = "idle"
    /\ UNCHANGED << _cpu_count, parent_keeps_end, _pipes, _processes, i, cur, prev, argDict,
                    var_list, var_array, result, calls, splitVars >>

\* globals()[function_name] in the main process: the name is not bound
run_function_local_unbound ==
    /\ Sent("run_function")
    /\ cur.function_name \notin Globals
    /\ err' = "KeyError"
    /\ pc' = "idle"
    /\ UNCHANGED << _cpu_count, parent_keeps_end, _pipes, _processes, _process_data, i, cur, prev,
                    argDict, var_list, var_array, result, calls, splitVars >>

\* ------------------------------------- the two aggregation functions
GetVarRequest(var_name) == ("op" :> "get_var") @@ ("var_name" :> var_name)

\* conn.recv() of the main process on the pipe of worker p
PipeRecv(p) == Head(_pipes[p].rep)
PipeRecvDone(p) == [_pipes EXCEPT ![p].rep = Tail(@)]

\* var_list += value
ListExtendMut(list, value) == value \o list

ListExtend(list, value) == list \o value

\* numpy.concatenate((a, b)) of one-dimensional a, b; None is zero-dimensional
NumpyConcatenate(a, b) ==
    IF a.isNone
    THEN [raised |-> "ValueError", arr |-> << >>]
    ELSE [raised |-> "none", arr |-> a.arr \o b]

concat_var_into_list_call ==
    \E var_name \in ConcatNames :
        /\ Enter([NoCall EXCEPT !.op = "concat_var_into_list", !.var_name = var_name],
                 EmptyDict, "none")
        /\ pc' = "send"
        /\ UNCHANGED << _pipes, _process_data >>

concat_var_into_list_send ==
    /\ Sending("concat_var_into_list")
    /\ SendStep(GetVarRequest(cur.var_name))

\* var_list = []
concat_var_into_list_sent ==
    /\ Sent("concat_var_into_list")
    /\ var_list' = << >>
    /\ pc' = "recv"
    /\ i' = 1
    /\ UNCHANGED << _cpu_count, parent_keeps_end, _pipes, _processes, _process_data, cur, prev, argDict,
                    var_array, result, err, calls, splitVars >>

\* var_list += pipe.recv(), which blocks until worker i has replied
concat_var_into_list_recv ==
    /\ pc = "recv" /\ cur.op = "concat_var_into_list" /\ i \in Workers
    /\ _pipes[i].rep # << >>
    /\ var_list' = ListExtend(var_list, PipeRecv(i))
    /\ _pipes' = PipeRecvDone(i)
    /\ i' = i + 1
    /\ UNCHANGED << _cpu_count, parent_keeps_end, _processes, _process_data, pc, cur, prev, argDict,
                    var_array, result, err, calls, splitVars >>

\* var_list += _process_data[var_name]; return var_list
concat_var_into_list_return ==
    /\ pc = "recv" /\ cur.op = "concat_var_into_list" /\ i > K
    /\ IF cur.var_name \in DOMAIN _process_data[0]
       THEN result' = ListExtend(var_list, _process_data[0][cur.var_name])
            /\ err' = "none"
       ELSE result' = << >> /\ err' = "KeyError"
    /\ var_list' = << >>
    /\ pc' = "idle"
    /\ UNCHANGED << _cpu_count, parent_keeps_end, _pipes, _processes, _process_data, i, cur, prev,
                    argDict, var_array, calls, splitVars >>

concat_var_into_numpy_array_call ==
    \E var_name \in ConcatNames :
        /\ Enter([NoCall EXCEPT !.op = "concat_var_into_numpy_array",
                                !.var_name = var_name],
                 EmptyDict, "none")
        /\ pc' = "send"
        /\ UNCHANGED << _pipes, _process_data >>

concat_var_into_numpy_array_send ==
    /\ Sending("concat_var_into_numpy_array")
    /\ SendStep(GetVarRequest(cur.var_name))

\* var_array = None
concat_var_into_numpy_array_sent ==
    /\ Sent("concat_var_into_numpy_array")
    /\ var_array' = NoneArray
    /\ pc' = "recv"
    /\ i' = 1
    /\ UNCHANGED << _cpu_count, parent_keeps_end, _pipes, _processes, _process_data, cur, prev, argDict,
                    var_list, result, err, calls, splitVars >>

\* the first reply becomes var_array, every later one is concatenated to it
concat_var_into_numpy_array_recv ==
    /\ pc = "recv" /\ cur.op = "concat_var_into_numpy_array" /\ i \in Workers
    /\ _pipes[i].rep # << >>
    /\ var_array' = IF var_array.isNone
                    THEN [isNone |-> FALSE, arr |-> PipeRecv(i)]
                    ELSE [isNone |-> FALSE,
                          arr |-> NumpyConcatenate(var_array, PipeRecv(i)).arr]
    /\ _pipes' = PipeRecvDone(i)
    /\ i' = i + 1
    /\ UNCHANGED << _cpu_count, parent_keeps_end, _processes, _process_data, pc, cur, prev, argDict,
                    var_list, result, err, calls, splitVars >>

\* var_array = numpy.concatenate((var_array, _process_data[var_name]))
concat_var_into_numpy_array_return ==
    /\ pc = "recv" /\ cur.op = "concat_var_into_numpy_array" /\ i > K
    /\ IF cur.var_name \notin DOMAIN _process_data[0]
       THEN result' = << >> /\ err' = "KeyError"
       ELSE LET out == NumpyConcatenate(var_array, _process_data[0][cur.var_name])
            IN  result' = out.arr /\ err' = out.raised
    /\ var_array' = NoneArray
    /\ pc' = "idle"
    /\ UNCHANGED << _cpu_count, parent_keeps_end, _pipes, _processes, _process_data, i, cur, prev,
                    argDict, var_list, calls, splitVars >>

\* ------------------------------------------- a pipe whose peer has gone
\* what the loop of cur sends to worker p, if anything
SendsTo(p) ==
    cur.op = "split_list_and_send" => SplitListPlan(cur.data_list)[p][2] > 0

\* pipe.send() on a pipe whose other end is closed raises; the call ends there
send_broken_pipe ==
    /\ pc = "send" /\ i \in Workers
    /\ PeerClosed(i)
    /\ SendsTo(i)
    /\ err' = "BrokenPipeError"
    /\ pc' = "idle"
    /\ UNCHANGED << _cpu_count, parent_keeps_end, _pipes, _processes, _process_data,
                    i, cur, prev, argDict, var_list, var_array, result, calls,
                    splitVars >>

\* pipe.recv() on an empty pipe whose other end is closed raises EOFError;
\* while the main process holds that end itself, recv() blocks for ever
recv_eof ==
    /\ pc = "recv" /\ i \in Workers
    /\ PeerClosed(i)
    /\ _pipes[i].rep = << >>
    /\ err' = "EOFError"
    /\ pc' = "idle"
    /\ var_list' = << >>
    /\ var_array' = NoneArray
    /\ UNCHANGED << _cpu_count, parent_keeps_end, _pipes, _processes, _process_data,
                    i, cur, prev, argDict, result, calls, splitVars >>

\* -------------------------------------------------------- end_processes
end_processes_call ==
    /\ Enter([NoCall EXCEPT !.op = "end_processes"], EmptyDict, "none")
    /\ pc' = "send"
    /\ UNCHANGED << _pipes, _process_data >>

end_processes_send ==
    /\ Sending("end_processes")
    /\ SendStep(("op" :> "shutdown"))

end_processes_sent ==
    /\ Sent("end_processes")
    /\ pc' = "join"
    /\ i' = 1
    /\ UNCHANGED << _cpu_count, parent_keeps_end, _pipes, _processes, _process_data, cur, prev, argDict,
                    var_list, var_array, result, err, calls, splitVars >>

\* process.join() returns once the process has terminated
JoinReturnsMut(p) == TRUE

JoinReturns(p) == _processes[p] # "listening"

end_processes_join ==
    /\ pc = "join" /\ i \in Workers
    /\ JoinReturns(i)
    /\ i' = i + 1
    /\ UNCHANGED << _cpu_count, parent_keeps_end, _pipes, _processes, _process_data, pc, cur, prev,
                    argDict, var_list, var_array, result, err, calls, splitVars >>

end_processes_return ==
    /\ pc = "join" /\ i > K
    /\ pc' = "ended"
    /\ UNCHANGED << _cpu_count, parent_keeps_end, _pipes, _processes, _process_data, i, cur, prev,
                    argDict, var_list, var_array, result, err, calls, splitVars >>

\* -------------------------------------------------------- _message_loop
\* worker p is blocked in conn.recv() and a request is there for it
Receives(p, op) ==
    /\ p \in Workers
    /\ _processes[p] = "listening"
    /\ _pipes[p].req # << >>
    /\ PyEq(Head(_pipes[p].req)["op"], op)

\* request = conn.recv(): the oldest request in the pipe, which leaves the pipe
Request(p) == Head(_pipes[p].req)
Received(p) == [_pipes EXCEPT ![p].req = Tail(@)]

\* for key in request: if key != "op": _process_data[key] = request[key]
SetDataMergeMut(data, request) == DictUpdate(data, request)

SetDataMerge(data, request) ==
    DictUpdate(data, [key \in (DOMAIN request) \ {"op"} |-> request[key]])

\* op == "shutdown": the loop returns and the process ends
message_loop_shutdown(p) ==
    /\ Receives(p, "shutdown")
    /\ _pipes' = Received(p)
    /\ _processes' = [_processes EXCEPT ![p] = "stopped"]
    /\ UNCHANGED << _cpu_count, parent_keeps_end, _process_data, pc, i, cur, prev, argDict, var_list,
                    var_array, result, err, calls, splitVars >>

message_loop_set_data(p) ==
    /\ Receives(p, "set_data")
    /\ _pipes' = Received(p)
    /\ _process_data' = [_process_data EXCEPT ![p] = SetDataMerge(@, Request(p))]
    /\ UNCHANGED << _cpu_count, parent_keeps_end, _processes, pc, i, cur, prev, argDict, var_list,
                    var_array, result, err, calls, splitVars >>

\* conn.send(_process_data[var_name])
message_loop_get_var(p) ==
    /\ Receives(p, "get_var")
    /\ Request(p)["var_name"] \in DOMAIN _process_data[p]
    /\ _pipes' = [_pipes EXCEPT
                    ![p].req = Tail(@),
                    ![p].rep = Append(@, _process_data[p][Request(p)["var_name"]])]
    /\ UNCHANGED << _cpu_count, parent_keeps_end, _processes, _process_data, pc, i, cur, prev, argDict,
                    var_list, var_array, result, err, calls, splitVars >>

\* conn.send(_process_data.get(var_name, []))
message_loop_get_var_missingMut(p) ==
    /\ Receives(p, "get_var")
    /\ Request(p)["var_name"] \notin DOMAIN _process_data[p]
    /\ _pipes' = [_pipes EXCEPT ![p].req = Tail(@), ![p].rep = Append(@, << >>)]
    /\ UNCHANGED << _cpu_count, parent_keeps_end, _processes, _process_data, pc, i, cur, prev,
                    argDict, var_list, var_array, result, err, calls, splitVars >>

\* _process_data[var_name] raises KeyError, which ends the process: no reply
message_loop_get_var_missing(p) ==
    /\ Receives(p, "get_var")
    /\ Request(p)["var_name"] \notin DOMAIN _process_data[p]
    /\ _pipes' = Received(p)
    /\ _processes' = [_processes EXCEPT ![p] = "crashed"]
    /\ UNCHANGED << _cpu_count, parent_keeps_end, _process_data, pc, i, cur, prev, argDict, var_list,
                    var_array, result, err, calls, splitVars >>

message_loop_clear_all_data(p) ==
    /\ Receives(p, "clear_all_data")
    /\ _pipes' = Received(p)
    /\ _process_data' = [_process_data EXCEPT ![p] = DictClear(@)]
    /\ UNCHANGED << _cpu_count, parent_keeps_end, _processes, pc, i, cur, prev, argDict, var_list,
                    var_array, result, err, calls, splitVars >>

\* op_name in globals(): globals()[op_name](request); an exception of the
\* function ends the process
message_loop_run_function(p) ==
    /\ Receives(p, "run_function")
    /\ Request(p)["op_name"] \in Globals
    /\ _pipes' = Received(p)
    /\ \E out \in Invoke(Request(p)["op_name"], _process_data[p]) :
        /\ _process_data' = [_process_data EXCEPT ![p] = out.data]
        /\ _processes' = [_processes EXCEPT
                            ![p] = IF out.raised = "none" THEN @ ELSE "crashed"]
    /\ UNCHANGED << _cpu_count, parent_keeps_end, pc, i, cur, prev, argDict, var_list, var_array,
                    result, err, calls, splitVars >>

\* op_name not in globals(): print("Unhandled operation:", op) and go on
message_loop_run_function_unbound(p) ==
    /\ Receives(p, "run_function")
    /\ Request(p)["op_name"] \notin Globals
    /\ _pipes' = Received(p)
    /\ UNCHANGED << _cpu_count, parent_keeps_end, _processes, _process_data, pc, i, cur, prev, argDict,
                    var_list, var_array, result, err, calls, splitVars >>

\* the operations the branches of the loop name
KnownOps == { "shutdown", "set_data", "get_var", "clear_all_data", "run_function" }

\* else: print("Unhandled operation:", op) and go on
message_loop_unhandled(p) ==
    /\ p \in Workers
    /\ _processes[p] = "listening"
    /\ _pipes[p].req # << >>
    /\ \A op \in KnownOps : ~PyEq(Request(p)["op"], op)
    /\ _pipes' = Received(p)
    /\ UNCHANGED << _cpu_count, parent_keeps_end, _processes, _process_data, pc, i, cur, prev, argDict,
                    var_list, var_array, result, err, calls, splitVars >>

\* the branches a request of the module's own functions takes when the caller
\* gives them fresh dictionaries and no name "op"
_message_loop(p) ==
    \/ message_loop_shutdown(p)
    \/ message_loop_set_data(p)
    \/ message_loop_get_var(p)
    \/ message_loop_get_var_missing(p)
    \/ message_loop_clear_all_data(p)
    \/ message_loop_run_function(p)
    \/ message_loop_run_function_unbound(p)

\* ----------------------------------------------------- specifications
\* the caller enters one of the public functions
CallStep ==
    \/ send_same_data_call \/ define_list_call \/ split_list_and_send_call
    \/ clear_all_data_call \/ run_function_raise \/ run_function_call
    \/ concat_var_into_list_call \/ concat_var_into_numpy_array_call
    \/ end_processes_call

\* the main process goes on in the function it is in
MainProgress ==
    \/ send_same_data_send \/ send_same_data_return
    \/ define_list_send \/ define_list_return
    \/ split_list_and_send_send \/ split_list_and_send_skip
    \/ split_list_and_send_return
    \/ clear_all_data_send \/ clear_all_data_return
    \/ run_function_send \/ run_function_local \/ run_function_local_unbound
    \/ concat_var_into_list_send \/ concat_var_into_list_sent
    \/ concat_var_into_list_recv \/ concat_var_into_list_return
    \/ concat_var_into_numpy_array_send \/ concat_var_into_numpy_array_sent
    \/ concat_var_into_numpy_array_recv \/ concat_var_into_numpy_array_return
    \/ end_processes_send \/ end_processes_sent
    \/ end_processes_join \/ end_processes_return
    \/ send_broken_pipe \/ recv_eof

MainStep == start_processes \/ CallStep \/ MainProgress

WorkerStep == \E p \in 1..(MaxCpu - 1) : _message_loop(p)

Next == MainStep \/ WorkerStep

Spec == Init /\ [][Next]_vars

\* every process is scheduled: the main process goes on in the function it is
\* in, and each worker handles the request it has received
FairSpec ==
    /\ Spec
    /\ WF_vars(start_processes \/ MainProgress)
    /\ \A p \in 1..(MaxCpu - 1) : WF_vars(_message_loop(p))

\* ------------------------------- callers that do not honour the docstrings
\* split_list_and_send(data_list, "op"): in the request {"op": "set_data",
\* var_name: slice} the slice takes the place of "set_data"
split_list_and_send_reserved ==
    \E data_list \in DataLists :
        /\ Enter([NoCall EXCEPT !.op = "split_list_and_send",
                                !.data_list = data_list, !.var_name = "op"],
                 EmptyDict, "none")
        /\ pc' = "send"
        /\ UNCHANGED << _pipes, _process_data >>

\* send_same_data(data_dict) once more with the dictionary object the call
\* before was given, which that call has left with the key "op"
send_same_data_again ==
    /\ cur.op = "send_same_data"
    /\ Enter([NoCall EXCEPT !.op = "send_same_data", !.arg = argDict],
             DictSet(argDict, "op", "set_data"), "none")
    /\ _process_data' = [_process_data EXCEPT ![0] = DictUpdate(@, argDict)]
    /\ pc' = "send"
    /\ UNCHANGED _pipes

\* run_function(function_name, arg_dict) once more with the dictionary object
\* the call before was given: it holds the keys that call has written, or the
\* reserved key that call has raised for, so the guard raises
run_function_again ==
    /\ cur.op = "run_function"
    /\ ReservedKeys(argDict)
    /\ Enter([NoCall EXCEPT !.op = "run_function",
                            !.function_name = cur.function_name, !.arg = argDict],
             argDict, "Exception")
    /\ UNCHANGED << _pipes, _process_data, pc >>

OpenCallStep ==
    split_list_and_send_reserved \/ send_same_data_again \/ run_function_again

OpenWorkerStep == \E p \in 1..(MaxCpu - 1) : message_loop_unhandled(p)

OpenNext == Next \/ OpenCallStep \/ OpenWorkerStep

\* the pool under callers that may name a variable "op" and may pass a
\* dictionary object a second time
OpenSpec == Init /\ [][OpenNext]_vars

\* ------------------------------------------------ the partitioner alone
\* the pool as the module leaves it, and arguments of _split from bounded sets
SplitInit ==
    /\ PoolInit
    /\ sIn \in [start : (0 - MaxStart)..MaxStart,
                length : 0..MaxLength,
                num_splits : 1..MaxSplits,
                done : {FALSE}]
    /\ sOut = << >>

SplitCall ==
    /\ ~sIn.done
    /\ sOut' = _split(sIn.start, sIn.length, sIn.num_splits)
    /\ sIn' = [sIn EXCEPT !.done = TRUE]

\* the partitioner on bounded inputs
SplitNext == SplitCall /\ UNCHANGED poolVars

SplitSpec == SplitInit /\ [][SplitNext]_vars

\* =================================================================== claims
\* sum of the lengths of the pairs of a plan
RECURSIVE SumLengths(_)
SumLengths(plan) ==
    IF plan = << >> THEN 0 ELSE plan[1][2] + SumLengths(Tail(plan))

\* the ranges [offset, offset + length) of the pairs, taken in order, tile
\* [start, start + length): each begins where the one before ends
Tiles(plan, start, length) ==
    /\ Len(plan) >= 1
    /\ plan[1][1] = start
    /\ \A n \in 1..(Len(plan) - 1) : plan[n + 1][1] = plan[n][1] + plan[n][2]
    /\ plan[Len(plan)][1] + plan[Len(plan)][2] = start + length

\* C2: for every start, length >= 0 and num_splits >= 1, _split returns
\* num_splits pairs with lengths >= 0 that sum to length, with non-decreasing
\* offsets, whose ranges taken in order tile [start, start + length).
C2_PartitionCoverage ==
    sIn.done =>
        /\ Len(sOut) = sIn.num_splits
        /\ \A n \in 1..Len(sOut) : sOut[n][2] >= 0
        /\ SumLengths(sOut) = sIn.length
        /\ \A n \in 1..(Len(sOut) - 1) : sOut[n][1] <= sOut[n + 1][1]
        /\ Tiles(sOut, sIn.start, sIn.length)

\* a standard split with a remainder and a start other than 0 has been computed
C2_Witness ==
    /\ sIn.done
    /\ sIn.start = 0 - 2 /\ sIn.length = 7 /\ sIn.num_splits = 4
    /\ sOut = << << 0 - 2, 1 >>, << 0 - 1, 2 >>, << 1, 2 >>, << 3, 2 >> >>

\* in the standard case pair n has offset bp[n] = start + floor(length * n /
\* num_splits) (n counted from 0) and length bp[n + 1] - bp[n], except the last,
\* whose length is start + length - bp[num_splits - 1]
StandardCaseRule ==
    (sIn.done /\ sIn.length >= sIn.num_splits)
    => LET n == sIn.num_splits
           bp == [k \in 1..n |-> sIn.start + ((sIn.length * (k - 1)) \div n)]
       IN  /\ Len(sOut) = n
           /\ \A k \in 1..(n - 1) : sOut[k] = << bp[k], bp[k + 1] - bp[k] >>
           /\ sOut[n] = << bp[n], sIn.start + sIn.length - bp[n] >>

\* _split(0, 10, 4) has been computed
SplitTenByFour ==
    sIn.done /\ sIn.start = 0 /\ sIn.length = 10 /\ sIn.num_splits = 4

\* C11 as the specification states it: the standard case follows the rule
\* above, and _split(0, 10, 4), with breakpoints 0, 2, 5, 7, returns
\* [(0,2),(2,2),(4,3),(7,3)].
C11_RemainderAbsorptionAsStated ==
    /\ StandardCaseRule
    /\ SplitTenByFour
        => sOut = << << 0, 2 >>, << 2, 2 >>, << 4, 3 >>, << 7, 3 >> >>

\* C11, amended: the standard case follows the rule above, and _split(0, 10, 4),
\* with breakpoints 0, 2, 5, 7, returns [(0,2),(2,3),(5,2),(7,3)]: the pairs
\* begin at the breakpoints and the last one absorbs the remainder.
C11_RemainderAbsorption ==
    /\ StandardCaseRule
    /\ SplitTenByFour
        => sOut = << << 0, 2 >>, << 2, 3 >>, << 5, 2 >>, << 7, 3 >> >>

\* _split(0, 10, 4) has returned four pairs that begin at 0, 2, 5 and 7
C11_Witness ==
    /\ SplitTenByFour
    /\ Len(sOut) = 4
    /\ << sOut[1][1], sOut[2][1], sOut[3][1], sOut[4][1] >> = << 0, 2, 5, 7 >>

\* C12: for every start, every num_splits >= 1 and every length with
\* 0 <= length < num_splits, _split returns (start + n, 1) as pair n for
\* n < length and (start + length, 0) as pair n for n >= length (n counted
\* from 0); in particular _split(0, 3, 4) = [(0,1),(1,1),(2,1),(3,0)].
C12_DegenerateSplit ==
    /\ (sIn.done /\ sIn.length < sIn.num_splits)
        => /\ Len(sOut) = sIn.num_splits
           /\ \A k \in 1..sIn.num_splits :
                sOut[k] = IF k - 1 < sIn.length
                          THEN << sIn.start + (k - 1), 1 >>
                          ELSE << sIn.start + sIn.length, 0 >>
    /\ (sIn.done /\ sIn.start = 0 /\ sIn.length = 3 /\ sIn.num_splits = 4)
        => sOut = << << 0, 1 >>, << 1, 1 >>, << 2, 1 >>, << 3, 0 >> >>

\* a split of 2 units from start 1 into 4 pairs has held the offset of the two
\* trailing empty pairs at 3
C12_Witness ==
    /\ sIn.done
    /\ sIn.start = 1 /\ sIn.length = 2 /\ sIn.num_splits = 4
    /\ sOut = << << 1, 1 >>, << 2, 1 >>, << 3, 0 >>, << 3, 0 >> >>

\* ---------------------------------------------------- claims on the pool
\* every worker has handled every request sent to it
Drained == \A p \in Workers : _pipes[p].req = << >>

\* the last call was "op" and has returned normally
Returned(op) == cur.op = op /\ pc = "idle" /\ err = "none"

\* the value of "name" of worker 1, then of worker 2, ..., then of worker p
RECURSIVE GatherWorkers(_, _)
GatherWorkers(name, p) ==
    IF p = 0 THEN << >>
    ELSE GatherWorkers(name, p - 1) \o _process_data[p][name]

\* ... and then that of the main process
Gather(name) == GatherWorkers(name, K) \o _process_data[0][name]

\* C1: split_list_and_send(data, name) followed by concat_var_into_list(name)
\* returns data, whatever the pool size, the length of data and the earlier
\* contents of the dictionaries.
C1_ScatterRoundTrip ==
    (/\ cur.op = "concat_var_into_list"
     /\ prev.op = "split_list_and_send"
     /\ prev.var_name = cur.var_name
     /\ pc = "idle")
    => (err = "none" /\ result = prev.data_list)

\* C3: run_function with a name that globals() does not hold raises in no
\* participant: the main process returns normally from it, and a worker that
\* handles the request is listening afterwards.
C3_UnknownOperationResilience ==
    [][
        /\ (/\ pc = "send" /\ pc' = "idle"
            /\ cur.op = "run_function"
            /\ cur.function_name \notin Globals)
           => err' = "none"
        /\ \A p \in Workers :
            (/\ _processes[p] = "listening"
             /\ _pipes[p].req # << >>
             /\ Head(_pipes[p].req)["op"] = "run_function"
             /\ Head(_pipes[p].req)["op_name"] \notin Globals
             /\ _pipes'[p].req = Tail(_pipes[p].req))
            => _processes'[p] = "listening"
    ]_vars

\* C4: run_function called with an arg_dict that has the key "op" or the key
\* "op_name" raises at once: no pipe has received a message, no dictionary of
\* any participant has changed (so the function has not run locally), and the
\* caller's arg_dict is as it was passed.
C4_ReservedKeyGuard ==
    [][
        (/\ calls' = calls + 1
         /\ cur'.op = "run_function"
         /\ {"op", "op_name"} \cap DOMAIN cur'.arg # {})
        => (/\ err' = "Exception"
            /\ pc' = "idle"
            /\ _pipes' = _pipes
            /\ _process_data' = _process_data
            /\ _processes' = _processes
            /\ argDict' = cur'.arg)
    ]_vars

\* a call with the key "op_name" has raised in a pool of two workers whose
\* main process holds data
C4_Witness ==
    /\ cur.op = "run_function"
    /\ "op_name" \in DOMAIN cur.arg
    /\ err = "Exception"
    /\ K = 2
    /\ _process_data[0] # EmptyDict

\* C5: whatever the order in which the workers handle get_var and reply,
\* concat_var_into_list returns the value of worker 1, then that of worker 2,
\* ..., then that of the main process.
C5_AggregationOrdering ==
    Returned("concat_var_into_list") => result = Gather(cur.var_name)

\* the list [1, 2, 3] scattered over two workers and the main process has been
\* gathered
C5_Witness ==
    /\ Returned("concat_var_into_list")
    /\ K = 2
    /\ result = << 1, 2, 3 >>
    /\ _process_data[1][cur.var_name] = << 1 >>
    /\ _process_data[2][cur.var_name] = << 2 >>

\* C6: once send_same_data(data_dict), data_dict without the key "op", has
\* returned and every worker has handled the request, the dictionary of every
\* participant maps every key of data_dict to its value, and none has the
\* key "op".
C6_BroadcastFidelity ==
    (Returned("send_same_data") /\ "op" \notin DOMAIN cur.arg /\ Drained)
    => \A p \in 0..K :
        /\ \A key \in DOMAIN cur.arg :
            key \in DOMAIN _process_data[p] /\ _process_data[p][key] = cur.arg[key]
        /\ "op" \notin DOMAIN _process_data[p]

\* a second broadcast has overwritten the values of the first in two workers
C6_Witness ==
    /\ Returned("send_same_data") /\ Drained
    /\ K = 2
    /\ prev.op = "send_same_data"
    /\ prev.arg["block_length"] = 1
    /\ cur.arg["block_length"] = 2
    /\ _process_data[2]["block_length"] = 2

\* "shutdown" has been sent to worker p
ShutdownSent(p) ==
    \/ _processes[p] = "stopped"
    \/ \E n \in 1..Len(_pipes[p].req) : _pipes[p].req[n]["op"] = "shutdown"

NoCrash == \A p \in Workers : _processes[p] # "crashed"

\* C7: end_processes sends "shutdown" to every worker before it waits for any;
\* while no worker raises, it returns in the end, and when it has returned every
\* worker has stopped after handling every request sent to it.
C7_ShutdownCompleteness ==
    /\ [](pc = "join" => \A p \in Workers : ShutdownSent(p))
    /\ []((pc = "ended" /\ NoCrash)
            => \A p \in Workers :
                _processes[p] = "stopped" /\ _pipes[p].req = << >>)
    /\ (cur.op = "end_processes") ~> (pc = "ended" \/ ~NoCrash)

\* end_processes has returned in a pool of two workers that had been sent
\* requests before
C7_Witness ==
    /\ pc = "ended"
    /\ K = 2
    /\ NoCrash
    /\ prev.op = "split_list_and_send"
    /\ "v" \in DOMAIN _process_data[2]

\* C8: once define_list(length) has returned and every worker has handled its
\* message, worker p holds pair p of _split(0, length, K + 1), the main
\* process holds the last pair, and the ranges the participants hold, taken in
\* the order worker 1, ..., worker K, main, tile [0, length).
C8_DefineList ==
    (Returned("define_list") /\ Drained)
    => LET plan == _split(0, cur.length, K + 1)
           held == [q \in 1..(K + 1) |->
                        _process_data[IF q = K + 1 THEN 0 ELSE q]["list_def"]]
       IN  /\ \A p \in Workers : _process_data[p]["list_def"] = plan[p]
           /\ _process_data[0]["list_def"] = plan[K + 1]
           /\ Tiles(held, 0, cur.length)

\* a list shorter than the number of participants has been defined
C8_Witness ==
    /\ Returned("define_list") /\ Drained
    /\ K = 2
    /\ cur.length = 2
    /\ _process_data[0]["list_def"] = << 2, 0 >>

\* C9: once clear_all_data has returned and every worker has handled the
\* request, every dictionary is empty, every worker is listening, and the pool
\* is as start_processes left it.
C9_ClearAllData ==
    (Returned("clear_all_data") /\ Drained)
    => /\ \A p \in 0..K : _process_data[p] = EmptyDict
       /\ \A p \in Workers :
            /\ _processes[p] = "listening"
            /\ _pipes[p] = [req |-> << >>, rep |-> << >>]

\* a pool of two workers that held a scattered list has been cleared
C9_Witness ==
    /\ Returned("clear_all_data") /\ Drained
    /\ K = 2
    /\ prev.op = "split_list_and_send"
    /\ Len(prev.data_list) = 3

\* C10: where "name" is set in every participant, concat_var_into_numpy_array
\* returns what concat_var_into_list returns, for every pool size, and does
\* not raise.
C10_DenseArraySameContract ==
    (/\ cur.op = "concat_var_into_numpy_array"
     /\ pc = "idle"
     /\ NoCrash
     /\ \A p \in 0..K : cur.var_name \in DOMAIN _process_data[p])
    => (err = "none" /\ result = Gather(cur.var_name))

\* ------------------------------------------------- claims on the worker loop
\* this step is worker p taking the oldest request out of its pipe
Handles(p) ==
    /\ _processes[p] = "listening"
    /\ _pipes[p].req # << >>
    /\ _pipes'[p].req = Tail(_pipes[p].req)

\* the request worker p is about to handle has discriminant op
Handling(p, op) == PyEq(Head(_pipes[p].req)["op"], op)

\* ... has a discriminant that no branch of the loop names
HandlingUnknown(p) ==
    \A op \in { "shutdown", "set_data", "get_var", "clear_all_data",
                 "run_function" } : ~Handling(p, op)

\* C13: a worker stops listening only by handling "shutdown"; after any other
\* request (set_data, get_var of any name, clear_all_data, run_function of any
\* name, an unknown discriminant) it is listening again, and an unknown
\* request leaves its dictionary unchanged.
C13_WorkerLoopAvailability ==
    [][\A p \in Workers :
        /\ (_processes[p] = "listening" /\ _processes'[p] # "listening")
            => (Handles(p) /\ Handling(p, "shutdown"))
        /\ (Handles(p) /\ ~Handling(p, "shutdown"))
            => _processes'[p] = "listening"
        /\ (Handles(p) /\ HandlingUnknown(p))
            => _process_data'[p] = _process_data[p]
    ]_vars

\* the last call was one of the two aggregation functions
Aggregating == cur.op \in { "concat_var_into_list", "concat_var_into_numpy_array" }

\* C14: a worker that handles get_var of a name its dictionary lacks sends no
\* reply, neither a default nor a substitute: the lookup raises KeyError, which
\* ends the worker, and the aggregation call that sent the request returns no
\* result (an aggregation call that has returned a result has found the name
\* in every worker, each still listening).
C14_MissingVariable ==
    /\ [][\A p \in Workers :
            (/\ Handles(p)
             /\ Handling(p, "get_var")
             /\ Head(_pipes[p].req)["var_name"] \notin DOMAIN _process_data[p])
            => (/\ _pipes'[p].rep = _pipes[p].rep
                /\ _processes'[p] = "crashed"
                /\ _process_data'[p] = _process_data[p])
       ]_vars
    /\ []((Aggregating /\ pc = "idle" /\ err = "none")
            => \A p \in Workers :
                /\ cur.var_name \in DOMAIN _process_data[p]
                /\ _processes[p] = "listening")

\* of two workers the first has replied and the second, which lacks the name,
\* has raised: the main process waits for a reply that is not there
C14_Witness ==
    /\ cur.op = "concat_var_into_list"
    /\ pc = "recv" /\ i = 2
    /\ K = 2
    /\ var_list = << 1 >>
    /\ cur.var_name \notin DOMAIN _process_data[2]
    /\ _processes[2] = "crashed"
    /\ _pipes[2] = [req |-> << >>, rep |-> << >>]

\* ------------------------------------------------------ claims on scatter
\* the elements of data that pair (a pair of a plan) covers
SliceOf(data, pair) == [k \in 1..pair[2] |-> data[pair[1] + k]]

\* C15: in split_list_and_send(data, name) the iteration for worker p sends it
\* one set_data message with its slice if pair p of the plan has length > 0,
\* and sends nothing if not; once the call has returned, the workers have
\* handled what they were sent and none has raised, each worker with
\* length > 0 holds its slice
\* under name, a worker with length 0 still holds what the scatter before had
\* given it, and the main process holds the slice of the final pair.
C15_ScatterSkipsEmptyShares ==
    /\ [][(/\ pc = "send" /\ cur.op = "split_list_and_send"
            /\ i \in Workers /\ i' = i + 1)
           => LET pair == _split(0, Len(cur.data_list), K + 1)[i]
                  message == ("op" :> "set_data")
                             @@ (cur.var_name :> SliceOf(cur.data_list, pair))
              IN  /\ _pipes'[i].req = IF pair[2] > 0
                                      THEN Append(_pipes[i].req, message)
                                      ELSE _pipes[i].req
                  /\ \A q \in Workers \ {i} : _pipes'[q] = _pipes[q]
                  /\ _process_data' = _process_data
       ]_vars
    /\ []((Returned("split_list_and_send") /\ Drained /\ NoCrash)
            => LET plan == _split(0, Len(cur.data_list), K + 1)
                   before == _split(0, Len(prev.data_list), K + 1)
               IN  /\ \A p \in Workers :
                        /\ plan[p][2] > 0
                            => _process_data[p][cur.var_name]
                                = SliceOf(cur.data_list, plan[p])
                        /\ (/\ plan[p][2] = 0
                            /\ prev.op = "split_list_and_send"
                            /\ prev.var_name = cur.var_name
                            /\ before[p][2] > 0)
                            => _process_data[p][cur.var_name]
                                = SliceOf(prev.data_list, before[p])
                   /\ _process_data[0][cur.var_name]
                        = SliceOf(cur.data_list, plan[K + 1]))

\* a list of one element has been scattered over two workers that held the
\* slices of a list of three: the second worker was sent nothing and holds
\* its old slice
C15_Witness ==
    /\ Returned("split_list_and_send") /\ Drained /\ NoCrash
    /\ K = 2
    /\ cur.data_list = << 1 >>
    /\ prev.op = "split_list_and_send" /\ Len(prev.data_list) = 3
    /\ _process_data[1]["v"] = << 1 >>
    /\ _process_data[2]["v"] = << 2 >>
    /\ _process_data[0]["v"] = << >>

\* --------------------------------------------------- claims on the pipes
\* the request worker p handles in this step is the one the call in progress
\* (or the last call) sent to it, and that call is "op"
HandlesOfCur(p, op) ==
    /\ Handles(p)
    /\ Tail(_pipes[p].req) = << >>
    /\ cur.op = op
    /\ i > p

\* the row numbers _create_data writes for a list definition
RowsOf(list_def, non_zeros_per_row) ==
    [k \in 1..(list_def[2] * non_zeros_per_row) |->
        list_def[1] + ((k - 1) \div non_zeros_per_row)]

\* C16: each worker handles the requests of its pipe in the order the main
\* process sent them: a step adds a request at the end of a pipe or takes the
\* oldest out of it. So when a worker invokes the function of run_function,
\* its dictionary holds what the call before (send_same_data, define_list or
\* split_list_and_send) sent it, and a get_var sent after run_function is
\* answered with what the function has written.
C16_PerChannelFifo ==
    [][\A p \in Workers :
        /\ \/ _pipes'[p].req = _pipes[p].req
           \/ _pipes[p].req # << >> /\ _pipes'[p].req = Tail(_pipes[p].req)
           \/ /\ Len(_pipes'[p].req) = Len(_pipes[p].req) + 1
              /\ SubSeq(_pipes'[p].req, 1, Len(_pipes[p].req)) = _pipes[p].req
        /\ (HandlesOfCur(p, "run_function") /\ Handling(p, "run_function"))
            => /\ (prev.op = "send_same_data" /\ "op" \notin DOMAIN prev.arg)
                    => \A key \in DOMAIN prev.arg :
                        /\ key \in DOMAIN _process_data[p]
                        /\ _process_data[p][key] = prev.arg[key]
               /\ prev.op = "define_list"
                    => /\ "list_def" \in DOMAIN _process_data[p]
                       /\ _process_data[p]["list_def"]
                            = _split(0, prev.length, K + 1)[p]
               /\ (/\ prev.op = "split_list_and_send"
                   /\ _split(0, Len(prev.data_list), K + 1)[p][2] > 0)
                    => /\ prev.var_name \in DOMAIN _process_data[p]
                       /\ _process_data[p][prev.var_name]
                            = SliceOf(prev.data_list,
                                      _split(0, Len(prev.data_list), K + 1)[p])
        /\ (/\ HandlesOfCur(p, "concat_var_into_list")
            /\ Handling(p, "get_var")
            /\ cur.var_name = "row"
            /\ prev.op = "run_function"
            /\ prev.function_name = "_create_data"
            /\ {"op", "op_name"} \cap DOMAIN prev.arg = {})
            => /\ "row" \in DOMAIN _process_data[p]
               /\ _process_data[p]["row"]
                    = RowsOf(_process_data[p]["list_def"],
                             _process_data[p]["non_zeros_per_row"])
               /\ _pipes'[p].rep = Append(_pipes[p].rep, _process_data[p]["row"])
    ]_vars

\* send_same_data with all the inputs of _create_data, run_function of it and
\* the gathering of "row" have followed one another in a pool of two workers
C16_Witness ==
    /\ Returned("concat_var_into_list")
    /\ cur.var_name = "row"
    /\ prev.op = "run_function"
    /\ K = 2
    /\ NoCrash
    /\ result = << 0, 0, 0 >>

\* C17: a run_function that passes the guard sends the same request, arg_dict
\* with "op" = "run_function" and "op_name" = function_name, to worker 1, then
\* worker 2, ..., then worker K, and the main process invokes the function
\* itself only when the request has been sent to the last worker, never before
\* or between the sends.
C17_RunFunctionDispatchOrder ==
    [][/\ (calls' = calls + 1 /\ cur'.op = "run_function" /\ pc' = "send")
            => (i' = 1 /\ _pipes' = _pipes /\ _process_data' = _process_data)
       /\ (cur.op = "run_function" /\ pc = "send")
            => LET request == ("op" :> "run_function")
                              @@ ("op_name" :> cur.function_name) @@ cur.arg
               IN  /\ i' # i
                        => /\ i \in Workers /\ i' = i + 1
                           /\ _pipes'[i].req = Append(_pipes[i].req, request)
                           /\ \A q \in Workers \ {i} : _pipes'[q] = _pipes[q]
                           /\ _process_data' = _process_data
                           /\ pc' = "send"
                   /\ (\/ _process_data'[0] # _process_data[0]
                       \/ pc' # "send" /\ err' # "BrokenPipeError")
                        => (i = K + 1 /\ i' = i /\ _pipes' = _pipes)
    ]_vars

\* run_function of _create_data has returned in a pool of two workers, and
\* every participant has written its rows
C17_Witness ==
    /\ Returned("run_function")
    /\ cur.function_name = "_create_data"
    /\ K = 2
    /\ Drained /\ NoCrash
    /\ \A p \in 0..K : "row" \in DOMAIN _process_data[p]

\* a reply enters a pipe only when its worker handles get_var, and it is the
\* value the worker holds under the name; no reply is in a pipe while the main
\* process is in no call; the main process takes from worker i the one reply
\* there is, the value worker i holds under the name of the call
RepliesMatch(p) ==
    /\ Len(_pipes'[p].rep) > Len(_pipes[p].rep)
        => /\ Handles(p) /\ Handling(p, "get_var")
           /\ Head(_pipes[p].req)["var_name"] \in DOMAIN _process_data[p]
           /\ _pipes'[p].rep
                = Append(_pipes[p].rep,
                         _process_data[p][Head(_pipes[p].req)["var_name"]])
    /\ pc' = "idle" => _pipes'[p].rep = << >>
    /\ (pc = "recv" /\ i = p /\ i' = i + 1)
        => /\ cur.var_name \in DOMAIN _process_data[p]
           /\ _pipes[p].rep = << _process_data[p][cur.var_name] >>
           /\ _pipes'[p].rep = << >>

\* C18: a worker sends a message only as the reply to a get_var it has
\* handled, exactly one reply per get_var; no unread reply is in a pipe when a
\* call begins or returns; each value the aggregation receives from worker i
\* answers the get_var that call sent it.
C18_RequestReplyMatching ==
    [][\A p \in Workers :
        /\ RepliesMatch(p)
        /\ (Handles(p) /\ Handling(p, "get_var"))
            => Len(_pipes'[p].rep) = Len(_pipes[p].rep) + 1
    ]_vars

\* ------------------------------------- claims on a dictionary passed twice
\* C19: send_same_data called twice in a row with the same dictionary object
\* has the effect of one call: once the second call has returned and the
\* workers have handled both requests, every participant's dictionary holds
\* the entries as after the first call, and none, the main process's
\* included, has the key "op".
C19_BroadcastRepeatable ==
    (/\ Returned("send_same_data")
     /\ prev.op = "send_same_data"
     /\ "op" \notin DOMAIN prev.arg
     /\ cur.arg = DictSet(prev.arg, "op", "set_data")
     /\ Drained)
    => \A p \in 0..K :
        /\ \A key \in DOMAIN prev.arg :
            key \in DOMAIN _process_data[p] /\ _process_data[p][key] = prev.arg[key]
        /\ "op" \notin DOMAIN _process_data[p]

\* C20: when run_function has returned normally from an arg_dict without the
\* keys "op" and "op_name", a second run_function given the same dictionary
\* object passes the guard too and goes on to send the request.
C20_RunFunctionRepeatable ==
    [][(/\ Returned("run_function")
        /\ {"op", "op_name"} \cap DOMAIN cur.arg = {}
        /\ calls' = calls + 1
        /\ cur'.op = "run_function"
        /\ cur'.arg = argDict)
       => (err' = "none" /\ pc' = "send")
    ]_vars

====
